---- MODULE Spec2Model ----
(***************************************************************************)
(* A model of lib/antd-theme-generator.js: the theme generator's process-  *)
(* wide cache (generateTheme), the Declaration Pruner (reducePlugin), the  *)
(* marker assignment loop, the Variable Collector (generateColorMap,       *)
(* getLessVars), the Custom-Stylesheet Compiler (compileAllLessFilesToCss),*)
(* the shade marker rules (getShade), the reverse substitution and the     *)
(* final assembly of the stylesheet.                                       *)
(*                                                                         *)
(* Text is modelled as a sequence of one-character strings, so that the    *)
(* regular expressions and string operations of the source are computed    *)
(* character by character.                                                 *)
(***************************************************************************)
EXTENDS Integers, Sequences, FiniteSets, TLC

VARIABLES
    \* ---- generateTheme and its process-wide cache (lines 14-15, 365-642)
    hashCache,      \* let hashCache
    cssCache,       \* let cssCache
    pc,             \* per call slot: where the async function is suspended
    content,        \* per call slot: the concatenated consumer stylesheet content
    options,        \* per call slot: the other options (themeVariables, varFile)
    result,         \* per call slot: the value the call returned
    outcome,        \* per call slot: "none", "hit", "ok", "failed"
    stage,          \* per call slot: number of pipeline stages the call has run
    hashBefore,     \* per call slot: the hashCache the cache check compared with
    started,        \* history: number of calls the host has made
    everOverlapped, \* history: some call started while another was in flight
    everFailed,     \* history: some call ended in the catch block
    clean,          \* per call slot: a hit returned with neither history flag set
    \* ---- reducePlugin (lines 108-164)
    sheet,          \* the stylesheet (a sequence of nodes) the plugin is given
    passes,         \* number of times the plugin has been applied to it
    \* ---- generateTheme, marker assignment (lines 474-495)
    themeVars,      \* the filtered theme variable list
    varIndex,       \* index of the variable the forEach is at
    color,          \* let color
    markerPc,       \* "roll", "test" (the while condition), "done"
    randomColors,   \* variable name -> marker colour
    randomColorsVars, \* marker colour -> variable name
    \* ---- generateColorMap, getLessVars and the merge (lines 60-88, 206-218, 469-472)
    declarations,   \* the declarations the variables file was written from
    varFileText,    \* the text of the variables file
    lineIndex,      \* index of the line the reduce of generateColorMap is at
    prev,           \* the accumulator of that reduce: the colours map
    lessVars,       \* the object getLessVars returns: the raw map
    mappings,       \* const mappings
    varPc,          \* "reduce", "assign", "done"
    \* ---- compileAllLessFilesToCss and the merge (lines 270-358, 519-591)
    files,          \* the consumer files: what less.render does with each
    csss,           \* what the promise of each file has settled with
    markerOutcome,  \* "pending", "ok", "error": the render of line 521
    targetOutcome,  \* "pending", "ok", "error": the awaits of lines 535-585
    customParts,    \* the array the map of lines 342-356 returns
    prunedCss,      \* css after line 591
    customPc,       \* "marker", "custom", "target", "merge", "done", "failed"
    \* ---- generateTheme, reverse substitution (lines 593-617)
    resultsCss,     \* results.css: the css the pruner returned
    css,            \* let css
    themeCompiledVars, \* variable name -> the colour the marker scan found
    compiledKeys,   \* Object.keys(themeCompiledVars)
    fadeMap,        \* fade text -> sentinel colour
    keyIndex,       \* index of the key the forEach of line 597 is at
    substPc,        \* "fade", "subst", "done"
    \* ---- generateTheme, the definitions put before the css (lines 425, 475-477, 619-636)
    themeVariables, \* the option themeVariables
    forEachIndex,   \* index of the variable the forEach of line 629 is at
    assemblePc,     \* "filter", "body", "reverse", "forEach", "done"
    \* ---- generateTheme, the shade marker rules (lines 497-509)
    varsContent,    \* let varsContent
    keyPos,         \* index of the key the inner forEach is at
    shadePc,        \* "keys", "vars" (line 508), "done"
    \* ---- getColor inside generateColorMap (lines 34-41, 72-76)
    lineMatches,    \* for each line of the reduce, const matches (line 66)
    lookupName,     \* the varName the running call of getColor was given
    hops,           \* number of calls of getColor made for the current line
    resolvePc       \* "reduce", "getColor", "done"

cacheVars == <<hashCache, cssCache, pc, content, options, result, outcome,
               stage, hashBefore, started, everOverlapped, everFailed, clean>>

pruneVars == <<sheet, passes>>

markerVars == <<themeVars, varIndex, color, markerPc, randomColors, randomColorsVars>>

collectorVars == <<declarations, varFileText, lineIndex, prev, lessVars, mappings, varPc>>

customVars == <<files, csss, markerOutcome, targetOutcome, customParts, prunedCss, customPc>>

substVars == <<resultsCss, css, themeCompiledVars, compiledKeys, fadeMap, keyIndex, substPc>>

assembleVars == <<themeVariables, forEachIndex, assemblePc>>

shadeVars == <<varsContent, keyPos, shadePc>>

resolveVars == <<lineMatches, lookupName, hops, resolvePc>>

vars == <<cacheVars, pruneVars, markerVars, collectorVars, customVars, substVars, assembleVars, shadeVars, resolveVars>>

\* What each part of the model leaves alone.
notCache == <<pruneVars, markerVars, collectorVars, customVars, substVars, assembleVars, shadeVars, resolveVars>>
notPrune == <<cacheVars, markerVars, collectorVars, customVars, substVars, assembleVars, shadeVars, resolveVars>>
notMarker == <<cacheVars, pruneVars, collectorVars, customVars, substVars, assembleVars, shadeVars, resolveVars>>
notVars == <<cacheVars, pruneVars, markerVars, customVars, substVars, assembleVars, shadeVars, resolveVars>>
notCustom == <<cacheVars, pruneVars, markerVars, collectorVars, substVars, assembleVars, shadeVars, resolveVars>>
notSubst == <<cacheVars, pruneVars, markerVars, collectorVars, customVars, assembleVars, shadeVars, resolveVars>>
\* The last stage works on themeVars, mappings, css and cssCache as well.
notAssemble == <<hashCache, pc, content, options, result, outcome, stage, hashBefore,
                 started, everOverlapped, everFailed, clean, pruneVars,
                 varIndex, color, markerPc, randomColors, randomColorsVars,
                 declarations, varFileText, lineIndex, prev, lessVars, varPc,
                 customVars, resultsCss, themeCompiledVars, compiledKeys, fadeMap,
                 keyIndex, substPc, shadeVars, resolveVars>>
\* The shade marker loop works on themeVars, varIndex, randomColors and css
\* as well.
notShade == <<cacheVars, pruneVars, color, markerPc, randomColorsVars, collectorVars,
              customVars, resultsCss, themeCompiledVars, compiledKeys, fadeMap,
              keyIndex, substPc, assembleVars, resolveVars>>
\* The colours-map pass, call by call, works on the variables file, lineIndex
\* and prev as well.
notResolve == <<cacheVars, pruneVars, markerVars, lessVars, mappings, varPc,
                customVars, substVars, assembleVars, shadeVars>>

(***************************************************************************)
(* Text helpers.                                                           *)
(***************************************************************************)
\* s.startsWith(p)
StartsWith(s, p) == Len(p) <= Len(s) /\ SubSeq(s, 1, Len(p)) = p

\* p occurs in s at index i
MatchAt(s, i, p) == i >= 1 /\ i + Len(p) - 1 <= Len(s) /\ SubSeq(s, i, i + Len(p) - 1) = p

\* s.includes(p)
Contains(s, p) == \E i \in 1..(Len(s) + 1) : MatchAt(s, i, p)

\* The empty object {}.
EmptyMap == [x \in {} |-> <<>>]

\* obj[key] = value
Put(obj, key, value) ==
    [x \in DOMAIN obj \cup {key} |-> IF x = key THEN value ELSE obj[x]]

\* All sequences over S of length lo..hi.
SeqsOf(S, lo, hi) == UNION {[1..n -> S] : n \in lo..hi}

(***************************************************************************)
(* generateTheme: the cache.                                               *)
(***************************************************************************)
NumContents == 2
NumOptions == 2
\* The host makes at most MaxCalls calls.
MaxCalls == 3

Contents == 1..NumContents
OptionSets == 1..NumOptions
\* Two call slots: a call and one that may overlap it.
Calls == {"callA", "callB"}

\* The empty string "" both caches start with.
EmptyText == <<>>

\* createHash("sha1").update(text).digest("hex") of the concatenation of the
\* given parts: a digest is never the empty string, and distinct inputs of
\* the model have distinct digests.
Sha1(parts) == <<"sha1", parts>>

\* The stylesheet text a complete run produces from the consumer content and
\* the other options.
GeneratedCss(c, o) == <<"css", c, o>>

\* The pipeline stages after the cache check, in order; a call at Stages[i]
\* is suspended at an await of that stage.
Stages == <<"collect", "marker", "custom", "target", "assemble">>
NumStages == Len(Stages)

InFlight(p) == pc[p] \notin {"idle", "done"}

\* hashCode of a call (line 416): computed from the consumer content alone.
HashCodeWithOptions(c, o) == Sha1(<<c, o>>)
HashCode(c, o) == Sha1(<<c>>)

\* what a successful run stores in cssCache (line 636)
StaleCss(c, o) == cssCache
StoredCss(c, o) == GeneratedCss(c, o)

InitCache ==
    /\ hashCache = EmptyText
    /\ cssCache = EmptyText
    /\ pc = [p \in Calls |-> "idle"]
    /\ content = [p \in Calls |-> 1]
    /\ options = [p \in Calls |-> 1]
    /\ result = [p \in Calls |-> EmptyText]
    /\ outcome = [p \in Calls |-> "none"]
    /\ stage = [p \in Calls |-> 0]
    /\ hashBefore = [p \in Calls |-> EmptyText]
    /\ started = 0
    /\ everOverlapped = FALSE
    /\ everFailed = FALSE
    /\ clean = [p \in Calls |-> TRUE]

\* The host calls generateTheme: the call globs and reads the consumer files
\* (awaits of lines 393 and 413).
Start(p, c, o) ==
    /\ pc[p] \in {"idle", "done"}
    /\ started < MaxCalls
    /\ pc' = [pc EXCEPT ![p] = "read"]
    /\ content' = [content EXCEPT ![p] = c]
    /\ options' = [options EXCEPT ![p] = o]
    /\ result' = [result EXCEPT ![p] = EmptyText]
    /\ outcome' = [outcome EXCEPT ![p] = "none"]
    /\ stage' = [stage EXCEPT ![p] = 0]
    /\ hashBefore' = [hashBefore EXCEPT ![p] = EmptyText]
    /\ clean' = [clean EXCEPT ![p] = TRUE]
    /\ started' = started + 1
    /\ everOverlapped' = (everOverlapped \/ \E q \in Calls \ {p} : InFlight(q))
    /\ UNCHANGED <<hashCache, cssCache, everFailed>>
    /\ UNCHANGED notCache

\* Lines 416-421: the hash equals the cached one, return cssCache.
CacheHit(p) ==
    /\ pc[p] = "read"
    /\ HashCode(content[p], options[p]) = hashCache
    /\ pc' = [pc EXCEPT ![p] = "done"]
    /\ result' = [result EXCEPT ![p] = cssCache]
    /\ outcome' = [outcome EXCEPT ![p] = "hit"]
    /\ clean' = [clean EXCEPT ![p] = ~everOverlapped /\ ~everFailed]
    /\ UNCHANGED <<hashCache, cssCache, content, options, stage, hashBefore,
                   started, everOverlapped, everFailed>>
    /\ UNCHANGED notCache

\* Lines 416-444: the hash differs, hashCache is overwritten at once and the
\* call suspends at the first await of the pipeline.
CacheMiss(p) ==
    /\ pc[p] = "read"
    /\ HashCode(content[p], options[p]) # hashCache
    /\ hashBefore' = [hashBefore EXCEPT ![p] = hashCache]
    /\ hashCache' = HashCode(content[p], options[p])
    /\ pc' = [pc EXCEPT ![p] = Stages[1]]
    /\ stage' = [stage EXCEPT ![p] = 1]
    /\ UNCHANGED <<cssCache, content, options, result, outcome, started,
                   everOverlapped, everFailed, clean>>
    /\ UNCHANGED notCache

\* An await of stage i resolves and the call runs on to the next stage.
Advance(p) ==
    /\ stage[p] \in 1..(NumStages - 1)
    /\ pc[p] = Stages[stage[p]]
    /\ pc' = [pc EXCEPT ![p] = Stages[stage[p] + 1]]
    /\ stage' = [stage EXCEPT ![p] = stage[p] + 1]
    /\ UNCHANGED <<hashCache, cssCache, content, options, result, outcome,
                   hashBefore, started, everOverlapped, everFailed, clean>>
    /\ UNCHANGED notCache

\* Lines 634-637: the last stage ends, cssCache is overwritten and returned.
Finish(p) ==
    /\ pc[p] = Stages[NumStages]
    /\ cssCache' = StoredCss(content[p], options[p])
    /\ result' = [result EXCEPT ![p] = cssCache']
    /\ outcome' = [outcome EXCEPT ![p] = "ok"]
    /\ pc' = [pc EXCEPT ![p] = "done"]
    /\ hashBefore' = [hashBefore EXCEPT ![p] = EmptyText]
    /\ UNCHANGED <<hashCache, content, options, stage, started,
                   everOverlapped, everFailed, clean>>
    /\ UNCHANGED notCache

\* Lines 638-641: an await rejects (a required file cannot be read, a render
\* throws); the catch block returns "" and touches neither cache variable.
Fail(p) ==
    /\ InFlight(p)
    /\ pc' = [pc EXCEPT ![p] = "done"]
    /\ result' = [result EXCEPT ![p] = EmptyText]
    /\ outcome' = [outcome EXCEPT ![p] = "failed"]
    /\ everFailed' = TRUE
    /\ hashBefore' = [hashBefore EXCEPT ![p] = EmptyText]
    /\ UNCHANGED <<hashCache, cssCache, content, options, stage, started,
                   everOverlapped, clean>>
    /\ UNCHANGED notCache

NextCache ==
    \E p \in Calls :
        \/ \E c \in Contents, o \in OptionSets : Start(p, c, o)
        \/ CacheHit(p)
        \/ CacheMiss(p)
        \/ Advance(p)
        \/ Finish(p)
        \/ Fail(p)

\* The step in which call p passes the cache check of lines 416-423.
ChecksCache(p) == pc[p] = "read" /\ pc'[p] # "read" /\ outcome'[p] # "failed"

\* C1: a call whose content hash equals the cached hash returns the cached
\* text and runs no pipeline stage; a call whose hash differs enters the
\* pipeline with the cached hash replaced, and when it has run every stage
\* (no other call overlapping) the cache holds its hash and its stylesheet;
\* the options take no part in the decision.
CacheDecidesByContent ==
    [][\A p \in Calls :
          /\ ChecksCache(p) =>
                IF Sha1(<<content[p]>>) = hashCache
                THEN /\ pc'[p] = "done" /\ outcome'[p] = "hit"
                     /\ result'[p] = cssCache /\ stage'[p] = 0
                     /\ hashCache' = hashCache /\ cssCache' = cssCache
                ELSE /\ pc'[p] = Stages[1] /\ stage'[p] = 1
                     /\ hashCache' = Sha1(<<content[p]>>)
          /\ (InFlight(p) /\ outcome'[p] = "ok") =>
                /\ stage[p] = NumStages
                /\ result'[p] = GeneratedCss(content[p], options[p])
                /\ cssCache' = result'[p]
                /\ ~everOverlapped => hashCache' = Sha1(<<content[p]>>)
      ]_vars

\* C1 witness: a call answered from the cache with the text an earlier call
\* generated from the same content under other options.
HitUnderOtherOptions ==
    \E p \in Calls : \E o \in OptionSets \ {options[p]} :
        /\ pc[p] = "done" /\ outcome[p] = "hit" /\ stage[p] = 0
        /\ ~everOverlapped
        /\ result[p] = GeneratedCss(content[p], o)
        /\ cssCache = result[p]

\* C2: a run that fails after the cache check (no other call overlapping)
\* returns "" and leaves hashCache and cssCache as they were before the call.
FailedRunLeavesCache ==
    [][\A p \in Calls :
          (InFlight(p) /\ stage[p] >= 1 /\ outcome'[p] = "failed" /\ ~everOverlapped)
              => /\ result'[p] = EmptyText
                 /\ hashCache' = hashBefore[p]
                 /\ cssCache' = cssCache
      ]_vars

\* C10: with calls serialized and none failing, every cache hit returns a
\* text generated from the same content. (That an overlapping call can be
\* answered with a text not generated from its content is the reachability
\* of StaleHitWhileInFlight.)
SerialHitsAreFresh ==
    \A p \in Calls :
        (pc[p] = "done" /\ outcome[p] = "hit" /\ clean[p])
            => \E o \in OptionSets : result[p] = GeneratedCss(content[p], o)

\* C10 witness: call p took the cache short-circuit while call q, with the
\* same content, was still in flight, and got a text not generated from it.
StaleHitWhileInFlight ==
    \E p \in Calls : \E q \in Calls \ {p} :
        /\ InFlight(q) /\ stage[q] >= 1 /\ content[q] = content[p]
        /\ pc[p] = "done" /\ outcome[p] = "hit"
        /\ hashCache = Sha1(<<content[p]>>)
        /\ \A o \in OptionSets : result[p] # GeneratedCss(content[p], o)

(***************************************************************************)
(* reducePlugin: the Declaration Pruner.                                   *)
(***************************************************************************)
MaxRules == 2
MaxDecls == 2
MaxPasses == 2

\* Texts of the stylesheets the model feeds the plugin.
TxtColor == <<"c","o","l","o","r">>
TxtBackground == <<"b","a","c","k","g","r","o","u","n","d">>
TxtBorder == <<"b","o","r","d","e","r">>
TxtBoxShadow == <<"b","o","x","-","s","h","a","d","o","w">>
TxtWidth == <<"w","i","d","t","h">>
TxtUrlOpen == <<"u","r","l","(">>
TxtUrlValue == <<"u","r","l","(","a",")">>
TxtHex == <<"#","1","1","1">>
TxtPalattePrefix ==
    <<".","m","a","i","n","-","c","o","l","o","r"," ",".","p","a","l","a","t","t","e","-">>
SelPalatte == TxtPalattePrefix \o <<"1">>
SelA == <<".","a">>
SelB == <<".","b">>

\* A declaration, a style rule, an at-rule with everything nested in it, a comment.
Decl(p, v) == [prop |-> p, value |-> v]
Rule(sel, ds) == [type |-> "rule", selector |-> sel, decls |-> ds]
AtRule == [type |-> "atrule", selector |-> <<>>, decls |-> <<>>]
Comment == [type |-> "comment", selector |-> <<>>, decls |-> <<>>]

\* String(decl.value).match(/url\(.*\)/g): "url(" with a ")" after it.
MatchesUrl(v) ==
    \E i \in 1..Len(v) : MatchAt(v, i, TxtUrlOpen) /\ \E j \in (i + 4)..Len(v) : v[j] = ")"

\* Number.isNaN(decl.value): the value of a parsed declaration is a string,
\* and Number.isNaN of a string is false.
NumberIsNaN(v) == FALSE

\* Lines 137-143: the declaration is dropped for its property name.
NotColorRelated(d) ==
    /\ ~Contains(d.prop, TxtColor)
    /\ ~Contains(d.prop, TxtBackground)
    /\ ~Contains(d.prop, TxtBorder)
    /\ ~Contains(d.prop, TxtBoxShadow)
    /\ ~NumberIsNaN(d.value)

\* Lines 116-149: the declarations walkDecls leaves in the rule. A declaration
\* is removed when its value holds url(...) (line 118) or when its property
\* is not colour related (line 145).
KeptDecls(ds) == SelectSeq(ds, LAMBDA d : ~MatchesUrl(d.value) /\ ~NotColorRelated(d))

\* Lines 115, 147, 150: removeRule stays true unless some declaration took
\* the else branch of line 146; a declaration removed at line 118 for its
\* url(...) value still takes that branch when its property is colour related.
RemoveRule(ds) == \A i \in 1..Len(ds) : NotColorRelated(ds[i])

\* cleanRule (lines 109-153) on one rule: <<>> when the rule is removed.
cleanRule(rule) ==
    IF StartsWith(rule.selector, TxtPalattePrefix) THEN <<>>
    ELSE IF RemoveRule(rule.decls) THEN <<>>
    ELSE <<Rule(rule.selector, KeptDecls(rule.decls))>>

\* Lines 155-163: at-rules removed, every rule cleaned, comments removed.
RECURSIVE reducePlugin(_)
reducePlugin(root) ==
    IF root = <<>> THEN <<>>
    ELSE LET n == Head(root)
             rest == reducePlugin(Tail(root))
         IN IF n.type = "rule" THEN cleanRule(n) \o rest ELSE rest

\* The compiled stylesheets fed to the plugin: every rule has a declaration.
PruneProps == {TxtColor, TxtBackground, TxtWidth}
PruneValues == {TxtHex, TxtUrlValue}
PruneDecls == {Decl(p, v) : p \in PruneProps, v \in PruneValues}
PruneNodes ==
    {Rule(sel, ds) : sel \in {SelA, SelPalatte}, ds \in SeqsOf(PruneDecls, 1, MaxDecls)}
        \cup {AtRule, Comment}

InitPrune ==
    /\ sheet \in SeqsOf(PruneNodes, 0, MaxRules)
    /\ passes = 0

\* postcss([reducePlugin]).process(css): one pass of the plugin.
Prune ==
    /\ passes < MaxPasses
    /\ sheet' = reducePlugin(sheet)
    /\ passes' = passes + 1
    /\ UNCHANGED notPrune

NextPrune == Prune

\* C3: after a pass of the pruner no rule with zero declarations is left and
\* a further pass changes nothing, prune(prune(x)) = prune(x).
PruneIsIdempotent ==
    passes >= 1 =>
        /\ reducePlugin(sheet) = sheet
        /\ \A i \in 1..Len(sheet) : sheet[i].decls # <<>>

(***************************************************************************)
(* generateTheme: marker assignment.                                       *)
(***************************************************************************)
MaxThemeVars == 2

TxtPrimaryColor == <<"@","p","r","i","m","a","r","y","-","c","o","l","o","r">>
TxtLinkColor == <<"@","l","i","n","k","-","c","o","l","o","r">>
TxtTextColor == <<"@","t","e","x","t","-","c","o","l","o","r">>
TxtBlack == <<"#","0","0","0","0","0","0">>
TxtWhite == <<"#","f","f","f","f","f","f">>
TxtMarkerA == <<"#","a","a","a","a","a","a">>
TxtMarkerB == <<"#","b","b","b","b","b","b">>
\* const PRIMARY_RANDOM_COLOR = "#123456"
PRIMARY_RANDOM_COLOR == <<"#","1","2","3","4","5","6">>

\* randomColor() (lines 21-23): "#" and the six hex digits of the integer
\* part of 0x1000000 + Math.random() * 0xffffff, which is below 0x1ffffff,
\* so every colour from #000000 to #fffffe can come out and #ffffff cannot.
RandomColorValues == {TxtBlack, PRIMARY_RANDOM_COLOR, TxtMarkerA, TxtMarkerB}

\* The while condition of lines 483-487; randomColorsVars[color] is truthy
\* when the colour is already a key of randomColorsVars.
RerollCondition(c) ==
    \/ (c \in DOMAIN randomColorsVars /\ c = PRIMARY_RANDOM_COLOR)
    \/ c = TxtBlack
    \/ c = TxtWhite

ThemeVarNames == {TxtPrimaryColor, TxtLinkColor, TxtTextColor}

InitMarker ==
    /\ themeVars \in SeqsOf(ThemeVarNames, 0, MaxThemeVars)
    /\ varIndex = 1
    /\ color = <<>>
    /\ markerPc = IF themeVars = <<>> THEN "done" ELSE "roll"
    /\ randomColors = EmptyMap
    /\ randomColorsVars = EmptyMap

\* Lines 479-482: let color = randomColor(), replaced by the sentinel for
\* @primary-color.
Roll(c) ==
    /\ markerPc = "roll"
    /\ color' = IF themeVars[varIndex] = TxtPrimaryColor THEN PRIMARY_RANDOM_COLOR ELSE c
    /\ markerPc' = "test"
    /\ UNCHANGED <<themeVars, varIndex, randomColors, randomColorsVars>>
    /\ UNCHANGED notMarker

\* Lines 483-489: the while condition holds, color = randomColor().
Reroll(c) ==
    /\ markerPc = "test"
    /\ themeVars[varIndex] # TxtPrimaryColor
    /\ RerollCondition(color)
    /\ color' = c
    /\ UNCHANGED <<themeVars, varIndex, markerPc, randomColors, randomColorsVars>>
    /\ UNCHANGED notMarker

\* Lines 492-495: the colour is assigned and the forEach moves on.
Assign ==
    /\ markerPc = "test"
    /\ themeVars[varIndex] = TxtPrimaryColor \/ ~RerollCondition(color)
    /\ randomColors' = Put(randomColors, themeVars[varIndex], color)
    /\ randomColorsVars' = Put(randomColorsVars, color, themeVars[varIndex])
    /\ varIndex' = varIndex + 1
    /\ markerPc' = IF varIndex = Len(themeVars) THEN "done" ELSE "roll"
    /\ UNCHANGED <<themeVars, color>>
    /\ UNCHANGED notMarker

NextMarker ==
    \/ \E c \in RandomColorValues : Roll(c)
    \/ \E c \in RandomColorValues : Reroll(c)
    \/ Assign

\* C4: after marker assignment no marker is #000000 or #ffffff, no variable
\* other than @primary-color holds #123456, no two variables hold the same
\* marker, and randomColorsVars is the exact inverse of randomColors.
MarkerAssignmentInjective ==
    markerPc = "done" =>
        /\ \A v \in DOMAIN randomColors :
              /\ randomColors[v] \notin {TxtBlack, TxtWhite}
              /\ v # TxtPrimaryColor => randomColors[v] # PRIMARY_RANDOM_COLOR
        /\ \A v, w \in DOMAIN randomColors : v # w => randomColors[v] # randomColors[w]
        /\ DOMAIN randomColorsVars = {randomColors[v] : v \in DOMAIN randomColors}
        /\ \A v \in DOMAIN randomColors : randomColorsVars[randomColors[v]] = v

(***************************************************************************)
(* The Variable Collector: generateColorMap, getColor, isValidColor,       *)
(* getLessVars and the merge of generateTheme.                             *)
(***************************************************************************)
MaxLines == 3

Whitespace == {" ", "\t", "\n", "\r"}
Digits == {"0","1","2","3","4","5","6","7","8","9"}
HexDigits == Digits \cup {"a","b","c","d","e","f","A","B","C","D","E","F"}
Letters ==
    {"a","b","c","d","e","f","g","h","i","j","k","l","m","n","o","p","q","r","s",
     "t","u","v","w","x","y","z","A","B","C","D","E","F","G","H","I","J","K","L",
     "M","N","O","P","Q","R","S","T","U","V","W","X","Y","Z"}
\* [@a-zA-Z0-9'-]
NameChars == Letters \cup Digits \cup {"@", "'", "-"}

\* The value of a missing property.
Undefined == <<"undefined">>

\* The smallest and the largest element of a non-empty set of integers.
Min(S) == CHOOSE x \in S : \A y \in S : x <= y
Max(S) == CHOOSE x \in S : \A y \in S : x >= y

\* text.split("\n")
RECURSIVE SplitLines(_)
SplitLines(text) ==
    IF \E i \in 1..Len(text) : text[i] = "\n"
    THEN LET i == Min({k \in 1..Len(text) : text[k] = "\n"})
         IN <<SubSeq(text, 1, i - 1)>> \o SplitLines(SubSeq(text, i + 1, Len(text)))
    ELSE <<text>>

\* lines.join("\n")
RECURSIVE JoinLines(_)
JoinLines(lines) ==
    IF lines = <<>> THEN <<>>
    ELSE IF Len(lines) = 1 THEN lines[1]
    ELSE lines[1] \o <<"\n">> \o JoinLines(Tail(lines))

\* combineLess (lines 749-773) on a file that holds no @import line: the
\* lines are split and joined again.
combineLess(text) == JoinLines(SplitLines(text))

\* ---- isValidColor (lines 246-268)
TxtRgb == <<"r","g","b">>
TxtHsl == <<"h","s","l">>
TxtHsv == <<"h","s","v">>
TxtPx == <<"p","x">>
TxtColorPalette == <<"c","o","l","o","r","P","a","l","e","t","t","e">>
TxtFade == <<"f","a","d","e">>

\* The end positions of one or more characters of class C read from a
\* position of P (a position is the index of the next character to read).
AfterPlus(s, P, C) ==
    {j \in 2..(Len(s) + 1) : \E i \in P : i < j /\ \A k \in i..(j - 1) : s[k] \in C}
AfterStar(s, P, C) == P \cup AfterPlus(s, P, C)
\* The end positions of one of the texts T read from a position of P.
AfterOneOf(s, P, T) == {i + Len(t) : <<i, t>> \in {x \in P \X T : MatchAt(s, x[1], x[2])}}
AfterOptional(s, P, T) == P \cup AfterOneOf(s, P, T)

AngleUnits == {<<"d","e","g">>, <<"r","a","d">>, <<"g","r","a","d">>, <<"t","u","r","n">>}

\* (\d+%?(deg|rad|grad|turn)?[,\s]+)
AfterComponent(s, P) ==
    AfterPlus(s,
              AfterOptional(s, AfterOptional(s, AfterPlus(s, P, Digits), {<<"%">>}), AngleUnits),
              Whitespace \cup {","})

\* Line 257: /^(rgb|hsl|hsv)a?\((\d+%?(deg|rad|grad|turn)?[,\s]+){2,3}[\s\/]*[\d\.]+%?\)$/
\* on lower-case text.
IsFunctionalColor(s) ==
    LET open == AfterOneOf(s, AfterOptional(s, AfterOneOf(s, {1}, {TxtRgb, TxtHsl, TxtHsv}),
                                            {<<"a">>}), {<<"(">>})
        two == AfterComponent(s, AfterComponent(s, open))
        comps == two \cup AfterComponent(s, two)
        num == AfterPlus(s, AfterStar(s, comps, Whitespace \cup {"/"}), Digits \cup {"."})
    IN (Len(s) + 1) \in AfterOneOf(s, AfterOptional(s, num, {<<"%">>}), {<<")">>})

\* !isNaN(parseInt(s, 16)): after leading white space and a sign, a hex digit.
ParsesAsHex(s) ==
    \E i \in 1..Len(s) :
        /\ s[i] \in HexDigits
        /\ \/ \A k \in 1..(i - 1) : s[k] \in Whitespace
           \/ /\ i >= 2 /\ s[i - 1] \in {"+", "-"}
              /\ \A k \in 1..(i - 2) : s[k] \in Whitespace

\* Lines 448-467: new RegExp(`${name}\(.*\)`) for each name. In the template
\* literal "\(" is "(", so the pattern is name(.*) with a group, and it is
\* found in every text that holds the name.
ColorFunctionNames ==
    {<<"c","o","l","o","r">>, <<"l","i","g","h","t","e","n">>, <<"d","a","r","k","e","n">>,
     <<"s","a","t","u","r","a","t","e">>, <<"d","e","s","a","t","u","r","a","t","e">>,
     <<"f","a","d","e","i","n">>, <<"f","a","d","e","o","u","t">>, <<"f","a","d","e">>,
     <<"s","p","i","n">>, <<"m","i","x">>, <<"h","s","v">>, <<"t","i","n","t">>,
     <<"s","h","a","d","e">>, <<"g","r","e","y","s","c","a","l","e">>,
     <<"m","u","l","t","i","p","l","y">>, <<"c","o","n","t","r","a","s","t">>,
     <<"s","c","r","e","e","n">>, <<"o","v","e","r","l","a","y">>}

\* customColorRegexArray as generateTheme passes it, the caller giving none.
MatchesCustomColorRegex(c) == \E name \in ColorFunctionNames : Contains(c, name)

isValidColor(c) ==
    IF c = Undefined \/ c = <<>> THEN FALSE
    ELSE IF Contains(c, TxtRgb) THEN TRUE
    ELSE IF Contains(c, TxtPx) THEN FALSE
    ELSE IF Contains(c, TxtColorPalette) \/ Contains(c, TxtFade) THEN TRUE
    ELSE IF c[1] = "#"
         THEN (Len(c) - 1) \in {3, 4, 6, 8} /\ ParsesAsHex(Tail(c))
    ELSE IF IsFunctionalColor(c) THEN TRUE
    ELSE MatchesCustomColorRegex(c)

\* ---- getColor (lines 34-41)
RECURSIVE getColor(_, _)
getColor(varName, map) ==
    LET c == IF varName \in DOMAIN map THEN map[varName] ELSE Undefined
    IN IF c \in DOMAIN map THEN getColor(c, map) ELSE c

\* ---- generateColorMap (lines 60-88)
\* Line 63: line.startsWith("@") && line.indexOf(":") > -1
IsVariableLine(line) == StartsWith(line, <<"@">>) /\ \E i \in 1..Len(line) : line[i] = ":"

\* (?=\S*['-]) at index i: a ' or a - before the next white space.
LookaheadDash(line, i) ==
    \E j \in i..Len(line) :
        line[j] \in {"'", "-"} /\ \A k \in i..(j - 1) : line[k] \notin Whitespace

\* ([@a-zA-Z0-9'-]+) at index i: the length of the run of name characters.
NameRun(line, i) ==
    Max({n \in 0..(Len(line) - i + 1) : \A k \in i..(i + n - 1) : line[k] \in NameChars})

\* The indices of the ";" that can end the match, and of a ":" followed by a
\* space that can be the colon of the match when the name ends before `from`.
Semicolons(line) == {q \in 1..Len(line) : line[q] = ";"}
ColonsFrom(line, from) ==
    {p \in from..(Len(line) - 2) :
        line[p] = ":" /\ line[p + 1] = " " /\ \E q \in Semicolons(line) : q > p + 1}

\* The regular expression of lines 66-68 matches starting at index i.
DeclMatchesAt(line, i) ==
    /\ LookaheadDash(line, i)
    /\ NameRun(line, i) >= 1
    /\ ColonsFrom(line, i + NameRun(line, i)) # {}

\* next.match(...) of lines 66-73: [matched, varName, color]; the leftmost
\* match, every quantifier greedy.
MatchDeclaration(line) ==
    LET starts == {i \in 1..Len(line) : DeclMatchesAt(line, i)}
    IN IF starts = {} THEN [matched |-> FALSE, varName |-> <<>>, color |-> <<>>]
       ELSE LET i == Min(starts)
                n == NameRun(line, i)
                p == Max(ColonsFrom(line, i + n))
                q == Max(Semicolons(line))
                sp == Max({k \in 1..(q - p - 1) : \A j \in (p + 1)..(p + k) : line[j] = " "})
            IN [matched |-> TRUE,
                varName |-> SubSeq(line, i, i + n - 1),
                color |-> SubSeq(line, p + sp + 1, q - 1)]

\* The reduce callback of lines 64-87 on one line.
ReduceColorLine(acc, line) ==
    LET mt == MatchDeclaration(line)
    IN IF ~mt.matched THEN acc
       ELSE IF mt.color # <<>> /\ StartsWith(mt.color, <<"@">>)
            THEN LET c == getColor(mt.color, acc)
                 IN IF isValidColor(c) THEN Put(acc, mt.varName, c) ELSE acc
       ELSE IF isValidColor(mt.color) THEN Put(acc, mt.varName, mt.color)
       ELSE acc

\* Lines 61-63: the lines the reduce runs over.
ColorMapLines(text) == SelectSeq(SplitLines(text), IsVariableLine)

\* ---- getLessVars (lines 206-218)
\* One match of /@(.*:[^;]*)/ at or after index `from`: <<start, end>>, or
\* <<0, 0>>. The "@" is followed on its line by a ":", the last one of the
\* line is taken, and the match runs on to the character before the next ";".
LessVarMatch(text, from) ==
    LET colons(a) == {c \in (a + 1)..Len(text) :
                         text[c] = ":" /\ \A k \in (a + 1)..c : text[k] \notin {"\n", "\r"}}
        starts == {a \in from..Len(text) : text[a] = "@" /\ colons(a) # {}}
    IN IF starts = {} THEN <<0, 0>>
       ELSE LET a == Min(starts)
                c == Max(colons(a))
                semis == {k \in (c + 1)..Len(text) : text[k] = ";"}
            IN <<a, IF semis = {} THEN Len(text) ELSE Min(semis) - 1>>

\* sheet.match(/@(.*:[^;]*)/g) || []
RECURSIVE LessVarMatches(_, _)
LessVarMatches(text, from) ==
    LET mt == LessVarMatch(text, from)
    IN IF mt = <<0, 0>> THEN <<>>
       ELSE <<SubSeq(text, mt[1], mt[2])>> \o LessVarMatches(text, mt[2] + 1)

\* variable.split(/:\s*/)
RECURSIVE SplitColon(_)
SplitColon(s) ==
    IF \E i \in 1..Len(s) : s[i] = ":"
    THEN LET i == Min({k \in 1..Len(s) : s[k] = ":"})
             ws == Max({n \in 0..(Len(s) - i) : \A k \in (i + 1)..(i + n) : s[k] \in Whitespace})
         IN <<SubSeq(s, 1, i - 1)>> \o SplitColon(SubSeq(s, i + ws + 1, Len(s)))
    ELSE <<s>>

\* parts.join(":")
RECURSIVE JoinColon(_)
JoinColon(parts) ==
    IF parts = <<>> THEN <<>>
    ELSE IF Len(parts) = 1 THEN parts[1]
    ELSE parts[1] \o <<":">> \o JoinColon(Tail(parts))

\* s.replace(/['"]+/g, "").trim()
StripQuotesAndTrim(s) ==
    LET t == SelectSeq(s, LAMBDA ch : ch \notin {"'", "\""})
        keep == {i \in 1..Len(t) : t[i] \notin Whitespace}
    IN IF keep = {} THEN <<>> ELSE SubSeq(t, Min(keep), Max(keep))

\* The forEach of lines 212-216 over the matches.
RECURSIVE LessVarsOf(_, _)
LessVarsOf(matches, obj) ==
    IF matches = <<>> THEN obj
    ELSE LET definition == SplitColon(Head(matches))
         IN LessVarsOf(Tail(matches),
                       Put(obj, StripQuotesAndTrim(definition[1]),
                           JoinColon(Tail(definition))))

getLessVars(sheetText) == LessVarsOf(LessVarMatches(sheetText, 1), EmptyMap)

\* Object.assign(target, source) (lines 469-472): the source wins.
ObjectAssignTargetWins(target, source) ==
    [k \in DOMAIN target \cup DOMAIN source |->
        IF k \in DOMAIN target THEN target[k] ELSE source[k]]
ObjectAssign(target, source) ==
    [k \in DOMAIN target \cup DOMAIN source |->
        IF k \in DOMAIN source THEN source[k] ELSE target[k]]

\* ---- the variables files of the model: one declaration "name: value;" a
\* line, the names of a file distinct.
NameA == <<"@","a">>
NameB == <<"@","b">>
NameC == <<"@","c">>
NameADash == <<"@","a","-","c">>
NameBDash == <<"@","b","-","c">>
TxtTenPx == <<"1","0","p","x">>

VarNames == {NameA, NameB, NameC, NameADash, NameBDash}
VarValues == {TxtHex, TxtTenPx, NameA, NameADash}
VarDeclarations == VarNames \X VarValues

DeclarationLine(d) == d[1] \o <<":", " ">> \o d[2] \o <<";">>

\* The text of the file with the declarations ds, every line ended by "\n".
RECURSIVE FileText(_)
FileText(ds) ==
    IF ds = <<>> THEN <<>> ELSE DeclarationLine(Head(ds)) \o <<"\n">> \o FileText(Tail(ds))

DistinctNames(ds) == \A i, j \in 1..Len(ds) : i # j => ds[i][1] # ds[j][1]

InitVars ==
    /\ declarations \in {ds \in SeqsOf(VarDeclarations, 1, MaxLines) : DistinctNames(ds)}
    /\ varFileText = FileText(declarations)
    /\ lineIndex = 1
    /\ prev = EmptyMap
    /\ lessVars = EmptyMap
    /\ mappings = EmptyMap
    /\ varPc = "reduce"

\* One call of the reduce callback of generateColorMap over varFileContent.
ReduceLine ==
    /\ varPc = "reduce"
    /\ lineIndex <= Len(ColorMapLines(combineLess(varFileText)))
    /\ prev' = ReduceColorLine(prev, ColorMapLines(combineLess(varFileText))[lineIndex])
    /\ lineIndex' = lineIndex + 1
    /\ UNCHANGED <<declarations, varFileText, lessVars, mappings, varPc>>
    /\ UNCHANGED notVars

\* The reduce is over: await getLessVars(varFile) (line 471).
ReadLessVars ==
    /\ varPc = "reduce"
    /\ lineIndex > Len(ColorMapLines(combineLess(varFileText)))
    /\ lessVars' = getLessVars(varFileText)
    /\ varPc' = "assign"
    /\ UNCHANGED <<declarations, varFileText, lineIndex, prev, mappings>>
    /\ UNCHANGED notVars

\* const mappings = Object.assign(colours map, raw map) (lines 469-472).
MergeMappings ==
    /\ varPc = "assign"
    /\ mappings' = ObjectAssign(prev, lessVars)
    /\ varPc' = "done"
    /\ UNCHANGED <<declarations, varFileText, lineIndex, prev, lessVars>>
    /\ UNCHANGED notVars

NextVars == ReduceLine \/ ReadLessVars \/ MergeMappings

\* The case of claim C5 in the file: line a gives a variable a literal
\* colour, a later line b refers to it, line c has a value that is no colour.
HasDash(name) == \E i \in 1..Len(name) : name[i] \in {"'", "-"}
IsLiteralThenAlias(a, b, c) ==
    /\ a < b
    /\ declarations[a][2] = TxtHex
    /\ declarations[b][2] = declarations[a][1]
    /\ declarations[c][2] = TxtTenPx

\* C5 as claimed: the colours-map pass holds A and B, both with A's literal,
\* and not C; the raw pass holds C; the merged mapping maps A and B to A's
\* literal.
AliasResolvedInMapping ==
    varPc = "done" =>
        \A a, b, c \in 1..Len(declarations) :
            IsLiteralThenAlias(a, b, c) =>
                /\ declarations[a][1] \in DOMAIN prev /\ prev[declarations[a][1]] = TxtHex
                /\ declarations[b][1] \in DOMAIN prev /\ prev[declarations[b][1]] = TxtHex
                /\ declarations[c][1] \notin DOMAIN prev
                /\ lessVars[declarations[c][1]] = TxtTenPx
                /\ mappings[declarations[a][1]] = TxtHex
                /\ mappings[declarations[b][1]] = TxtHex

\* C5 as amended: the colours-map pass holds A (with its literal) exactly
\* when A's name has a - or a ', holds B (with A's literal) exactly when
\* both names have one, and never holds C; the raw pass maps A to its
\* literal, B to the text of the reference and C to its raw value; the
\* merged mapping, the raw pass winning, maps A to its literal, B to the
\* text of the reference and C to its raw value.
AliasKeptRawInMapping ==
    varPc = "done" =>
        \A a, b, c \in 1..Len(declarations) :
            IsLiteralThenAlias(a, b, c) =>
                LET A == declarations[a][1]
                    B == declarations[b][1]
                    C == declarations[c][1]
                IN /\ A \in DOMAIN prev <=> HasDash(A)
                   /\ B \in DOMAIN prev <=> (HasDash(A) /\ HasDash(B))
                   /\ A \in DOMAIN prev => prev[A] = TxtHex
                   /\ B \in DOMAIN prev => prev[B] = TxtHex
                   /\ C \notin DOMAIN prev
                   /\ lessVars[A] = TxtHex /\ lessVars[B] = A /\ lessVars[C] = TxtTenPx
                   /\ mappings[A] = TxtHex /\ mappings[B] = A /\ mappings[C] = TxtTenPx

\* C5 witness: a file with dashed names A and B whose alias was resolved in
\* the colours-map pass and kept raw in the merged mapping.
AliasResolvedThenOverridden ==
    /\ varPc = "done"
    /\ \E a, b, c \in 1..Len(declarations) :
          /\ IsLiteralThenAlias(a, b, c)
          /\ declarations[b][1] \in DOMAIN prev
          /\ prev[declarations[b][1]] = TxtHex
          /\ mappings[declarations[b][1]] = declarations[a][1]

(***************************************************************************)
(* generateColorMap with the calls of getColor taken one at a time.        *)
(***************************************************************************)
MaxAliasLines == 3
\* The depth of recursion of getColor the model follows.
MaxHops == 3

\* The variables files of this part: @a has no hyphen, so its line is not
\* matched and a reference to it is a reference to a name never defined.
AliasNames == {NameADash, NameBDash, NameA}
AliasValues == {TxtHex, NameADash, NameBDash, NameA}

\* Lines 61-68: the lines the reduce runs over, and what next.match gives
\* for each.
LineMatches(text) ==
    [i \in 1..Len(ColorMapLines(combineLess(text))) |->
        MatchDeclaration(ColorMapLines(combineLess(text))[i])]

InitResolve ==
    /\ declarations \in SeqsOf(AliasNames \X AliasValues, 1, MaxAliasLines)
    /\ varFileText = FileText(declarations)
    /\ lineMatches = LineMatches(varFileText)
    /\ lineIndex = 1
    /\ prev = EmptyMap
    /\ lookupName = <<>>
    /\ hops = 0
    /\ resolvePc = "reduce"

\* Line 72: color && color.startsWith("@")
IsReference(c) == c # <<>> /\ StartsWith(c, <<"@">>)

\* Line 35: mappings[varName]
Lookup(map, varName) == IF varName \in DOMAIN map THEN map[varName] ELSE Undefined

\* Lines 74-76: color = getColor(color, prev) ... prev[varName] = color
StoredReference(reference, resolved) == reference
StoredColor(reference, resolved) == resolved

\* The reduce callback on a line that is no reference: lines 64-71, 77-86.
ReducePlainLine ==
    /\ resolvePc = "reduce"
    /\ lineIndex <= Len(lineMatches)
    /\ ~(lineMatches[lineIndex].matched /\ IsReference(lineMatches[lineIndex].color))
    /\ prev' = IF lineMatches[lineIndex].matched /\ isValidColor(lineMatches[lineIndex].color)
               THEN Put(prev, lineMatches[lineIndex].varName, lineMatches[lineIndex].color)
               ELSE prev
    /\ lineIndex' = lineIndex + 1
    /\ UNCHANGED <<declarations, varFileText, lineMatches, lookupName, hops, resolvePc>>
    /\ UNCHANGED notResolve

\* Lines 72-74: the value is a reference, getColor(color, prev) is called.
CallGetColor ==
    /\ resolvePc = "reduce"
    /\ lineIndex <= Len(lineMatches)
    /\ lineMatches[lineIndex].matched /\ IsReference(lineMatches[lineIndex].color)
    /\ lookupName' = lineMatches[lineIndex].color
    /\ hops' = 1
    /\ resolvePc' = "getColor"
    /\ UNCHANGED <<declarations, varFileText, lineMatches, lineIndex, prev>>
    /\ UNCHANGED notResolve

\* Lines 34-41, one call of getColor: it calls itself when the value it
\* read is a key, and returns the value otherwise; lines 75-76 then store
\* the returned value if it is a colour, and the reduce moves on.
GetColorStep ==
    /\ resolvePc = "getColor"
    /\ IF Lookup(prev, lookupName) \in DOMAIN prev
       THEN /\ hops < MaxHops
            /\ lookupName' = Lookup(prev, lookupName)
            /\ hops' = hops + 1
            /\ UNCHANGED <<lineIndex, prev, resolvePc>>
       ELSE /\ prev' = IF isValidColor(Lookup(prev, lookupName))
                       THEN Put(prev, lineMatches[lineIndex].varName,
                                StoredColor(lineMatches[lineIndex].color, Lookup(prev, lookupName)))
                       ELSE prev
            /\ lineIndex' = lineIndex + 1
            /\ lookupName' = <<>>
            /\ hops' = 0
            /\ resolvePc' = "reduce"
    /\ UNCHANGED <<declarations, varFileText, lineMatches>>
    /\ UNCHANGED notResolve

\* Line 87: the reduce is over, generateColorMap returns the map.
ReturnColorMap ==
    /\ resolvePc = "reduce"
    /\ lineIndex > Len(lineMatches)
    /\ resolvePc' = "done"
    /\ UNCHANGED <<declarations, varFileText, lineMatches, lineIndex, prev, lookupName, hops>>
    /\ UNCHANGED notResolve

NextResolve == ReducePlainLine \/ CallGetColor \/ GetColorStep \/ ReturnColorMap

\* The map in which a reference takes the value its target has in the map
\* at that line, in one read, and a line whose target is not in the map is
\* dropped.
RECURSIVE OneReadMap(_, _)
OneReadMap(lines, acc) ==
    IF lines = <<>> THEN acc
    ELSE LET mt == MatchDeclaration(Head(lines))
         IN OneReadMap(Tail(lines),
                IF ~mt.matched THEN acc
                ELSE IF IsReference(mt.color)
                     THEN IF mt.color \in DOMAIN acc
                          THEN Put(acc, mt.varName, acc[mt.color])
                          ELSE acc
                ELSE IF isValidColor(mt.color) THEN Put(acc, mt.varName, mt.color)
                ELSE acc)

\* Every stored value is a terminal, no call of getColor calls itself, and
\* between two lines the map is the one-read map of the lines done.
LookupInOneRead ==
    /\ \A k \in DOMAIN prev :
          /\ prev[k] # Undefined
          /\ ~StartsWith(prev[k], <<"@">>)
          /\ prev[k] \notin DOMAIN prev
    /\ hops <= 1
    /\ resolvePc \in {"reduce", "done"} =>
          prev = OneReadMap(SubSeq(ColorMapLines(combineLess(varFileText)), 1, lineIndex - 1),
                            EmptyMap)

\* C12: the colours-map pass terminates on every variables file with
\* @-prefixed keys and literal values that do not start with @, also with
\* cyclic reference chains, self-references and references to names defined
\* later or never: every value stored in the map under construction is a
\* terminal, so a lookup is one read, and a reference whose target is not in
\* the map yet is dropped.
ColorMapPassTerminates == [](LookupInOneRead) /\ <>(resolvePc = "done")

\* C12 witness: the pass is over on a file in which @a-c refers to @b-c and
\* @b-c to @a-c, and a reference of it was resolved into the map.
CyclicFileResolved ==
    /\ resolvePc = "done"
    /\ \E i, j, k \in 1..Len(declarations) :
          /\ declarations[i] = <<NameADash, NameBDash>>
          /\ declarations[j] = <<NameBDash, NameADash>>
          /\ declarations[k][2] = TxtHex
          /\ k < j
    /\ NameBDash \in DOMAIN prev

(***************************************************************************)
(* generateTheme from the marker render to merge-and-prune, with           *)
(* compileAllLessFilesToCss: the Custom-Stylesheet Compiler.               *)
(***************************************************************************)
MaxFiles == 2

SelAnt == <<".","a","n","t">>

\* What less.render resolves with for the consumer files of the model.
CssA == <<Rule(SelA, <<Decl(TxtColor, TxtHex)>>)>>
CssAWide == <<Rule(SelA, <<Decl(TxtColor, TxtHex), Decl(TxtWidth, TxtTenPx)>>)>>
CssB == <<Rule(SelB, <<Decl(TxtBackground, TxtHex)>>)>>
CssBCommented == <<Comment>> \o CssB
\* The compiled stylesheet of the library (line 582).
AntCss == <<Rule(SelAnt, <<Decl(TxtColor, TxtHex), Decl(TxtWidth, TxtTenPx)>>)>>

\* A consumer file: whether less.render of it resolves, and with what css.
Compiles(sheetOfFile) == [resolves |-> TRUE, css |-> sheetOfFile]
CompileError == [resolves |-> FALSE, css |-> <<>>]
ConsumerFiles == {CompileError} \cup {Compiles(c) : c \in {CssA, CssAWide, CssB, CssBCommented}}

\* The value a file's promise settles with (lines 325-339): the render
\* result, or "\n" from the catch handler, which has no css property.
Pending == [settled |-> FALSE, hasCss |-> FALSE, css |-> <<>>]
SettledValueKeepsOutput(file) == [settled |-> TRUE, hasCss |-> TRUE, css |-> CssA]
SettledValue(file) ==
    IF file.resolves THEN [settled |-> TRUE, hasCss |-> TRUE, css |-> file.css]
    ELSE [settled |-> TRUE, hasCss |-> FALSE, css |-> <<>>]

\* stripCssComments(c.css || "", { preserve: false }) (line 346)
stripCssComments(c) ==
    SelectSeq(IF c.hasCss THEN c.css ELSE <<>>, LAMBDA n : n.type # "comment")

\* Lines 347-349: the text that is hashed to find duplicates.
DedupKeyPruned(c) == Sha1(<<reducePlugin(stripCssComments(c))>>)
DedupKey(c) == Sha1(<<stripCssComments(c)>>)

\* Lines 342-356: the map over csss; a text whose hash was seen gives "".
RECURSIVE DedupMap(_, _)
DedupMap(cs, hashes) ==
    IF cs = <<>> THEN <<>>
    ELSE IF DedupKey(Head(cs)) \in hashes
         THEN <<(<<>>)>> \o DedupMap(Tail(cs), hashes)
         ELSE <<stripCssComments(Head(cs))>> \o DedupMap(Tail(cs), hashes \cup {DedupKey(Head(cs))})

\* parts.join("\n") of stylesheets: the rules of all parts, in order.
RECURSIVE JoinSheets(_)
JoinSheets(parts) == IF parts = <<>> THEN <<>> ELSE Head(parts) \o JoinSheets(Tail(parts))

InitCustom ==
    /\ files \in SeqsOf(ConsumerFiles, 1, MaxFiles)
    /\ csss = [i \in DOMAIN files |-> Pending]
    /\ markerOutcome = "pending"
    /\ targetOutcome = "pending"
    /\ customParts = <<>>
    /\ prunedCss = <<>>
    /\ customPc = "marker"

\* Line 521: await render(css, lessPaths) of the marker batch resolves.
RenderMarkers ==
    /\ customPc = "marker"
    /\ markerOutcome' = "ok"
    /\ customPc' = "custom"
    /\ UNCHANGED <<files, csss, targetOutcome, customParts, prunedCss>>
    /\ UNCHANGED notCustom

\* Line 521 rejects: nothing catches it before the catch block of line 638,
\* which returns "".
RenderMarkersFails ==
    /\ customPc = "marker"
    /\ markerOutcome' = "error"
    /\ customPc' = "failed"
    /\ UNCHANGED <<files, csss, targetOutcome, customParts, prunedCss>>
    /\ UNCHANGED notCustom

\* Lines 291-340: the render of one consumer file settles, in any order.
CompileFile(i) ==
    /\ customPc = "custom"
    /\ ~csss[i].settled
    /\ csss' = [csss EXCEPT ![i] = SettledValue(files[i])]
    /\ UNCHANGED <<files, markerOutcome, targetOutcome, customParts, prunedCss, customPc>>
    /\ UNCHANGED notCustom

\* Lines 342-357: Promise.all has resolved; dedup and join.
JoinCustom ==
    /\ customPc = "custom"
    /\ \A i \in DOMAIN csss : csss[i].settled
    /\ customParts' = DedupMap(csss, {})
    /\ customPc' = "target"
    /\ UNCHANGED <<files, csss, markerOutcome, targetOutcome, prunedCss>>
    /\ UNCHANGED notCustom

\* Lines 535-585: the library stylesheet is read, bundled and rendered.
CompileTarget ==
    /\ customPc = "target"
    /\ targetOutcome' = "ok"
    /\ customPc' = "merge"
    /\ UNCHANGED <<files, csss, markerOutcome, customParts, prunedCss>>
    /\ UNCHANGED notCustom

\* One of the awaits of lines 535-585 rejects: the catch block returns "".
CompileTargetFails ==
    /\ customPc = "target"
    /\ targetOutcome' = "error"
    /\ customPc' = "failed"
    /\ UNCHANGED <<files, csss, markerOutcome, customParts, prunedCss>>
    /\ UNCHANGED notCustom

\* Lines 587-591: allCss = antCss + "\n" + userCustomCss, pruned.
MergeAndPrune ==
    /\ customPc = "merge"
    /\ prunedCss' = reducePlugin(AntCss \o JoinSheets(customParts))
    /\ customPc' = "done"
    /\ UNCHANGED <<files, csss, markerOutcome, targetOutcome, customParts>>
    /\ UNCHANGED notCustom

NextCustom ==
    \/ RenderMarkers
    \/ RenderMarkersFails
    \/ \E i \in DOMAIN files : CompileFile(i)
    \/ JoinCustom
    \/ CompileTarget
    \/ CompileTargetFails
    \/ MergeAndPrune

\* The number of places where the non-empty sequence sub occurs in s.
Occurrences(s, sub) == Cardinality({i \in 1..Len(s) : MatchAt(s, i, sub)})

\* css without its comment nodes.
Uncommented(nodes) == SelectSeq(nodes, LAMBDA n : n.type # "comment")

\* File j compiled and no earlier file compiled to the same comment-stripped css.
FirstOfItsCss(j) ==
    /\ files[j].resolves
    /\ \A k \in 1..(j - 1) :
          Uncommented(files[k].css) # Uncommented(files[j].css)

\* C6 as claimed: a compile failure of one unit, a consumer file or the
\* marker batch, does not end the run with the failure result, the failed
\* unit gives empty content and its siblings still give their output.
UnitFailureRecovered ==
    /\ markerOutcome = "error" => customPc # "failed"
    /\ customPc \in {"target", "merge", "done"} =>
          \A i \in DOMAIN files :
              /\ ~files[i].resolves => customParts[i] = <<>>
              /\ FirstOfItsCss(i) => customParts[i] = Uncommented(files[i].css)

\* C6 as amended: a compile failure of a consumer file gives empty content,
\* the other files still give their output and the run goes on; a compile
\* failure of the marker batch is not recovered, it ends the run with "".
ConsumerFailureRecovered ==
    /\ markerOutcome = "error" => customPc = "failed"
    /\ customPc = "failed" => (markerOutcome = "error" \/ targetOutcome = "error")
    /\ customPc \in {"target", "merge", "done"} =>
          \A i \in DOMAIN files :
              /\ ~files[i].resolves => customParts[i] = <<>>
              /\ FirstOfItsCss(i) => customParts[i] = Uncommented(files[i].css)
    /\ customPc = "done" =>
          \A i \in DOMAIN files :
              FirstOfItsCss(i) =>
                  Occurrences(prunedCss, reducePlugin(files[i].css)) >= 1

\* C6 witness: the run is through merge-and-prune although a consumer file
\* failed to compile, and the rule of a sibling file is in the output.
SiblingSurvivesFailure ==
    /\ customPc = "done"
    /\ \E i, j \in DOMAIN files :
          /\ ~files[i].resolves
          /\ files[j].resolves
          /\ customParts[i] = <<>>
          /\ Occurrences(prunedCss, reducePlugin(files[j].css)) = 1

\* C7 as claimed: two files whose pruned compiled css is identical give that
\* pruned rule set once in the pruned output.
PrunedDuplicateOnce ==
    customPc = "done" =>
        \A i, j \in DOMAIN files :
            (/\ i < j /\ files[i].resolves /\ files[j].resolves
             /\ reducePlugin(files[i].css) = reducePlugin(files[j].css))
                => Occurrences(prunedCss, reducePlugin(files[i].css)) = 1

\* C7 as amended: duplicates are found on the comment-stripped compiled css,
\* before pruning: of the files with the same stripped css only the first
\* gives output, and files whose stripped css differ each give their own,
\* so a pruned rule set they share is in the pruned output once for each.
CompiledDuplicateOnce ==
    /\ customPc \in {"target", "merge", "done"} =>
          \A j \in DOMAIN files :
              files[j].resolves =>
                  customParts[j] = IF FirstOfItsCss(j)
                                   THEN Uncommented(files[j].css)
                                   ELSE <<>>
    /\ customPc = "done" =>
          \A i \in DOMAIN files :
              FirstOfItsCss(i) =>
                  Occurrences(prunedCss, reducePlugin(files[i].css))
                      = Cardinality({j \in DOMAIN files :
                                        /\ FirstOfItsCss(j)
                                        /\ reducePlugin(files[j].css) = reducePlugin(files[i].css)})

\* C7 witness: two files with the same pruned css but different compiled
\* css, whose shared rule set is twice in the pruned output.
SamePrunedTwice ==
    /\ customPc = "done"
    /\ \E i, j \in DOMAIN files :
          /\ i < j /\ files[i].resolves /\ files[j].resolves
          /\ files[i].css # files[j].css
          /\ reducePlugin(files[i].css) = reducePlugin(files[j].css)
          /\ Occurrences(prunedCss, reducePlugin(files[i].css)) = 2

(***************************************************************************)
(* generateTheme, reverse substitution (lines 593-617), with getShade.     *)
(***************************************************************************)
MaxTokens == 2
MaxEntries == 2

\* ---- new RegExp(source, "g") and String.prototype.replace
\* s.replace(ch, "\\" + ch) with a string pattern: the first ch only.
RECURSIVE EscapeFirst(_, _)
EscapeFirst(s, ch) ==
    IF s = <<>> THEN <<>>
    ELSE IF Head(s) = ch THEN <<"\\", ch>> \o Tail(s)
    ELSE <<Head(s)>> \o EscapeFirst(Tail(s), ch)

\* The regular expression of a source text: "\" and a character is that
\* character, "." is any character but a line end, "(" and ")" delimit a
\* group and read nothing, any other character is itself.
RECURSIVE CompileRegExp(_)
CompileRegExp(source) ==
    IF source = <<>> THEN <<>>
    ELSE IF Head(source) = "\\" /\ Len(source) >= 2
         THEN <<[any |-> FALSE, ch |-> source[2]]>> \o CompileRegExp(Tail(Tail(source)))
    ELSE IF Head(source) \in {"(", ")"} THEN CompileRegExp(Tail(source))
    ELSE IF Head(source) = "." THEN <<[any |-> TRUE, ch |-> "."]>> \o CompileRegExp(Tail(source))
    ELSE <<[any |-> FALSE, ch |-> Head(source)]>> \o CompileRegExp(Tail(source))

\* The compiled expression re matches s at index i.
RegExpMatchesAt(re, s, i) ==
    /\ i + Len(re) - 1 <= Len(s)
    /\ \A k \in 1..Len(re) :
          IF re[k].any THEN s[i + k - 1] \notin {"\n", "\r"} ELSE s[i + k - 1] = re[k].ch

\* The indices from i on where the compiled expression re matches s.
MatchStarts(re, s, i) == {k \in i..Len(s) : re # <<>> /\ RegExpMatchesAt(re, s, k)}

\* s.replace(re, replacement) without the g flag: the leftmost match only.
ReplaceFirstFrom(s, i, re, replacement) ==
    IF MatchStarts(re, s, i) = {} THEN SubSeq(s, i, Len(s))
    ELSE SubSeq(s, i, Min(MatchStarts(re, s, i)) - 1) \o replacement
         \o SubSeq(s, Min(MatchStarts(re, s, i)) + Len(re), Len(s))

\* s.replace(re, replacement) with the g flag, from index i on: every
\* match, left to right, none overlapping. The replacement texts of the
\* model hold no "$".
RECURSIVE ReplaceAllFrom(_, _, _, _)
ReplaceAllFrom(s, i, re, replacement) ==
    IF MatchStarts(re, s, i) = {} THEN SubSeq(s, i, Len(s))
    ELSE SubSeq(s, i, Min(MatchStarts(re, s, i)) - 1) \o replacement
         \o ReplaceAllFrom(s, Min(MatchStarts(re, s, i)) + Len(re), re, replacement)

ReplaceOnlyFirst(s, source, replacement) ==
    ReplaceFirstFrom(s, 1, CompileRegExp(source), replacement)
ReplaceAll(s, source, replacement) ==
    ReplaceAllFrom(s, 1, CompileRegExp(source), replacement)

\* ---- getShade (lines 226-236)
\* The indices i where "-" and a digit are at i and i + 1.
DashDigitAt(varName) ==
    {i \in 1..(Len(varName) - 1) : varName[i] = "-" /\ varName[i + 1] \in Digits}

\* /(.*)-(\d)/.test(varName)
IsShadeName(varName) == DashDigitAt(varName) # {}

TxtPrimaryDash == <<"p","r","i","m","a","r","y","-">>

\* s.replace("@", ""): the first "@" only.
RECURSIVE DropFirstAt(_)
DropFirstAt(s) ==
    IF s = <<>> THEN <<>>
    ELSE IF Head(s) = "@" THEN Tail(s)
    ELSE <<Head(s)>> \o DropFirstAt(Tail(s))

\* The grave accent, which no string of this module can hold.
Backtick == "grave"

getShade(varName) ==
    LET i == Max(DashDigitAt(varName))
        number == <<varName[i + 1]>>
        className == IF \E k \in DashDigitAt(varName) : MatchAt(varName, k - 7, TxtPrimaryDash)
                     THEN TxtPrimaryColor
                     ELSE SubSeq(varName, 1, i - 1)
    IN <<"c","o","l","o","r","(","~",Backtick,"c","o","l","o","r","P","a","l","e","t","t","e","(","\"","@","{">>
       \o DropFirstAt(className)
       \o <<"}","\"",","," ">> \o number \o <<")",Backtick,")">>

\* ---- the texts of the model
TxtPrimaryOne == <<"@","p","r","i","m","a","r","y","-","1">>
\* Colours the marker scan can find: a short and a long hexadecimal colour,
\* the first a prefix of the second, and an rgba colour.
ColorShort == <<"#","1","1","1">>
ColorLong == <<"#","1","1","1","2","2","2">>
ColorRgba == <<"r","g","b","a","(","1","8",","," ","5","2",","," ","8","6",","," ","0",".","2",")">>
\* A value of randomColor() that is no discovered colour.
ColorSentinel == <<"#","3","3","3","3","3","3">>
\* Matches of /fade\(.*\)/g in the library's stylesheet.
FadePrimary == <<"f","a","d","e","(","@","p","r","i","m","a","r","y","-","c","o","l","o","r",","," ","2","0","%",")">>
FadeOfLiteral == <<"f","a","d","e","(","t","i","n","t","(","#","1","1","1",")",","," ","5","%",")">>
\* Line 615
SpecialCaseSource == <<"r","g","b","a","\\","(","1","8",","," ","5","2",","," ","8","6",","," ","0",".","2","\\",")">>

DiscoveredNames == {TxtPrimaryColor, TxtPrimaryOne}
DiscoveredColors == {ColorShort, ColorLong, ColorRgba}
BodyValues == {ColorShort, ColorLong, ColorRgba, ColorSentinel}
FadeMaps ==
    {EmptyMap} \cup {Put(EmptyMap, f, c) : f \in {FadePrimary, FadeOfLiteral}, c \in {ColorSentinel, ColorLong}}

\* The pruned css of the values vs: one rule of declarations "color: v;".
RECURSIVE DeclarationsText(_)
DeclarationsText(vs) ==
    IF vs = <<>> THEN <<>>
    ELSE TxtColor \o <<":", " ">> \o Head(vs) \o <<";">> \o DeclarationsText(Tail(vs))
RuleBody(vs) == SelA \o <<"{">> \o DeclarationsText(vs) \o <<"}">>

InitSubst ==
    /\ compiledKeys \in {ks \in SeqsOf(DiscoveredNames, 1, MaxEntries) :
                            \A i, j \in 1..Len(ks) : i # j => ks[i] # ks[j]}
    /\ themeCompiledVars \in [{compiledKeys[i] : i \in 1..Len(compiledKeys)} -> DiscoveredColors]
    /\ fadeMap \in FadeMaps
    /\ resultsCss \in {RuleBody(vs) : vs \in SeqsOf(BodyValues, 1, MaxTokens)}
    /\ css = resultsCss
    /\ keyIndex = 1
    /\ substPc = "fade"

\* Lines 593-595: every sentinel of fadeMap back to its fade text.
RECURSIVE RestoredFades(_, _)
RestoredFades(text, fades) ==
    IF fades = {} THEN text
    ELSE LET fade == CHOOSE f \in fades : TRUE
         IN RestoredFades(ReplaceAll(text, fadeMap[fade], fade), fades \ {fade})

RestoreFades ==
    /\ substPc = "fade"
    /\ css' = RestoredFades(css, DOMAIN fadeMap)
    /\ substPc' = "subst"
    /\ UNCHANGED <<compiledKeys, themeCompiledVars, fadeMap, resultsCss, keyIndex>>
    /\ UNCHANGED notSubst

\* Lines 597-609: the forEach callback on one key of themeCompiledVars.
SubstituteColor ==
    /\ substPc = "subst"
    /\ keyIndex <= Len(compiledKeys)
    /\ LET varName == compiledKeys[keyIndex]
           source == EscapeFirst(EscapeFirst(themeCompiledVars[varName], "("), ")")
       IN css' = ReplaceAll(css, source, IF IsShadeName(varName) THEN getShade(varName) ELSE varName)
    /\ keyIndex' = keyIndex + 1
    /\ UNCHANGED <<compiledKeys, themeCompiledVars, fadeMap, resultsCss, substPc>>
    /\ UNCHANGED notSubst

\* Lines 611-617: the special case.
RestoreSpecialCase ==
    /\ substPc = "subst"
    /\ keyIndex > Len(compiledKeys)
    /\ css' = ReplaceAll(css, SpecialCaseSource, FadePrimary)
    /\ substPc' = "done"
    /\ UNCHANGED <<compiledKeys, themeCompiledVars, fadeMap, resultsCss, keyIndex>>
    /\ UNCHANGED notSubst

NextSubst == RestoreFades \/ SubstituteColor \/ RestoreSpecialCase

\* C8: once the fade sentinels are restored and every discovered colour is
\* replaced, the discovered colour of no entry of themeCompiledVars occurs
\* in the css, whatever the order of the entries, also when two entries
\* share a colour or the colour of one begins with the colour of another.
NoDiscoveredColorLeft ==
    substPc = "done" =>
        \A varName \in DOMAIN themeCompiledVars : ~Contains(css, themeCompiledVars[varName])

\* C8 witness: two entries, the colour of the first a proper prefix of the
\* colour of the second, both colours in the pruned css, the run done.
PrefixColorsSubstituted ==
    /\ substPc = "done"
    /\ Len(compiledKeys) = 2
    /\ themeCompiledVars[compiledKeys[1]] = ColorShort
    /\ themeCompiledVars[compiledKeys[2]] = ColorLong
    /\ Contains(resultsCss, ColorLong)
    /\ Occurrences(resultsCss, ColorShort) >= 2
    /\ css # resultsCss

(***************************************************************************)
(* generateTheme, the theme variable list and the definitions put before   *)
(* the css (lines 425, 475-477, 619-636), with minifyCss.                  *)
(***************************************************************************)
MaxVariables == 2

LineTerminators == {"\n", "\r"}

NotReversed(s) == s
\* array.reverse()
Reverse(s) == [i \in 1..Len(s) |-> s[Len(s) + 1 - i]]

\* The last index of the run of characters of class C that starts at i
\* (i - 1 when s[i] is not of the class).
RunEnd(s, i, C) ==
    Max({r \in (i - 1)..Len(s) : \A k \in i..r : s[k] \in C})

\* The index of the first line terminator at or after i, Len(s) + 1 if none.
LineEnd(s, i) ==
    Min({k \in i..(Len(s) + 1) : k = Len(s) + 1 \/ s[k] \in LineTerminators})

\* ---- the regular expressions of lines 630 and 655-725, each as the index
\* of the last character of its match at index i, 0 when it has none there.
\* new RegExp(`${varName}( *):(.*);`): the name, spaces, ":", and on to the
\* last ";" of the line.
DefinitionEnd(s, i, varName) ==
    IF ~MatchAt(s, i, varName) THEN 0
    ELSE LET j == RunEnd(s, i + Len(varName), {" "}) + 1
         IN IF j > Len(s) \/ s[j] # ":" THEN 0
            ELSE LET semis == {k \in (j + 1)..(LineEnd(s, j) - 1) : s[k] = ";"}
                 IN IF semis = {} THEN 0 ELSE Max(semis)

\* /\/\*[\s\S]*?\*\/|\/\/.*/
CommentEnd(s, i) ==
    LET closes == {k \in (i + 2)..(Len(s) - 1) : s[k] = "*" /\ s[k + 1] = "/"}
    IN IF MatchAt(s, i, <<"/", "*">>) /\ closes # {} THEN Min(closes) + 1
       ELSE IF MatchAt(s, i, <<"/", "/">>) THEN LineEnd(s, i) - 1
       ELSE 0

\* /^\s*$(?:\r\n?|\n)/m: from the start of a line, white space up to the
\* last line terminator of the run.
BlankLineEnd(s, i) ==
    LET ends == {k \in i..RunEnd(s, i, Whitespace) : s[k] \in LineTerminators}
    IN IF (i = 1 \/ s[i - 1] \in LineTerminators) /\ ends # {} THEN Max(ends) ELSE 0

\* /\{(\r\n?|\n)\s+/ and /;(\r\n?|\n)\s+/: the character, a line end and
\* white space after it.
LineEndAndSpaceEnd(s, i, ch) ==
    IF /\ i < Len(s) /\ s[i] = ch /\ s[i + 1] \in LineTerminators
       /\ RunEnd(s, i + 1, Whitespace) >= i + 2
    THEN RunEnd(s, i + 1, Whitespace) ELSE 0

\* /;(\r\n?|\n)\}/ and /,(\r\n?|\n)[.]/: the character, a line end, the
\* other character.
LineEndBetweenEnd(s, i, ch, after) ==
    IF i < Len(s) /\ s[i] = ch /\ s[i + 1] \in LineTerminators
    THEN IF MatchAt(s, i + 1, <<"\r", "\n", after>>) THEN i + 3
         ELSE IF i + 2 <= Len(s) /\ s[i + 2] = after THEN i + 2
         ELSE 0
    ELSE 0

MatchEnd(rx, s, i) ==
    CASE rx.op = "definition" -> DefinitionEnd(s, i, rx.text)
      [] rx.op = "comment" -> CommentEnd(s, i)
      [] rx.op = "blank" -> BlankLineEnd(s, i)
      [] rx.op = "space" -> LineEndAndSpaceEnd(s, i, rx.text[1])
      [] rx.op = "between" -> LineEndBetweenEnd(s, i, rx.text[1], rx.text[2])

\* s.replace(rx, replacement) with the g flag, from index i on: the
\* leftmost match, then the same on the text after it.
RECURSIVE ReplaceRx(_, _, _, _)
ReplaceRx(s, i, rx, replacement) ==
    LET starts == {k \in i..Len(s) : MatchEnd(rx, s, k) >= k}
    IN IF starts = {} THEN SubSeq(s, i, Len(s))
       ELSE SubSeq(s, i, Min(starts) - 1) \o replacement
            \o ReplaceRx(s, MatchEnd(rx, s, Min(starts)) + 1, rx, replacement)

Rx(op, text) == [op |-> op, text |-> text]

\* minifyCss (lines 653-726)
minifyCss(text) ==
    LET a == ReplaceRx(text, 1, Rx("comment", <<>>), <<>>)
        b == ReplaceRx(a, 1, Rx("blank", <<>>), <<>>)
        c == ReplaceRx(b, 1, Rx("space", <<"{">>), <<"{">>)
        d == ReplaceRx(c, 1, Rx("between", <<";", "}">>), <<";", "}">>)
        e == ReplaceRx(d, 1, Rx("space", <<";">>), <<";">>)
    IN ReplaceRx(e, 1, Rx("between", <<",", ".">>), <<",", " ", ".">>)

\* s.trim()
Trim(s) ==
    LET inked == {k \in 1..Len(s) : s[k] \notin Whitespace}
    IN IF inked = {} THEN <<>> ELSE SubSeq(s, Min(inked), Max(inked))

\* Line 631: `${varName}: ${mappings[varName]};\n${css}\n`
DefinitionLine(varName, value) == varName \o <<":", " ">> \o value \o <<";">>
WithDefinition(varName, value, text) == DefinitionLine(varName, value) \o <<"\n">> \o text \o <<"\n">>

\* ---- the texts of the model
TxtUnknownVar == <<"@","f","o","n","t">>
TxtBlue == <<"@","b","l","u","e">>
\* const mappings: the variables of the variables file, the raw value of each.
AssembleMappings ==
    Put(Put(Put(EmptyMap, TxtPrimaryColor, TxtHex), TxtLinkColor, TxtPrimaryColor),
        TxtPrimaryOne, ColorLong)
\* What the caller can name: two variables of the file, one with the name
\* of a shade, one the file does not have.
CallerVariables == {TxtPrimaryColor, TxtLinkColor, TxtPrimaryOne, TxtUnknownVar}
\* css after line 621: rules, in the layout postcss leaves them in.
AssembleBodies ==
    {SelA \o <<" ","{","\n"," "," ">> \o TxtColor \o <<":"," ">> \o TxtPrimaryColor \o <<";","\n","}","\n">>,
     SelA \o <<",","\n">> \o SelB \o <<" ","{","\n"," "," ">>
        \o TxtColor \o <<":"," ">> \o TxtLinkColor \o <<";","\n"," "," ">>
        \o TxtBorder \o <<":"," ">> \o TxtPrimaryColor \o <<";","\n","}">>}
\* The text of style/themes/default.less (line 623).
AntdDefault ==
    <<"/","*"," ","x"," ","*","/","\n">>
    \o DefinitionLine(TxtPrimaryColor, TxtBlue) \o <<" ","/","/"," ","y","\n","\n">>
    \o DefinitionLine(TxtLinkColor, TxtPrimaryColor) \o <<"\n">>
    \o DefinitionLine(TxtTextColor, TxtBlack) \o <<"\n">>

InitAssemble ==
    /\ themeVariables \in SeqsOf(CallerVariables, 1, MaxVariables)
    /\ themeVars = themeVariables
    /\ mappings = AssembleMappings
    /\ css = <<>>
    /\ forEachIndex = 1
    /\ assemblePc = "filter"

\* Lines 475-477
FilterThemeVars ==
    /\ assemblePc = "filter"
    /\ themeVars' = SelectSeq(themeVars, LAMBDA name : name \in DOMAIN mappings /\ ~IsShadeName(name))
    /\ assemblePc' = "body"
    /\ UNCHANGED <<themeVariables, mappings, css, forEachIndex, cssCache>>
    /\ UNCHANGED notAssemble

\* Lines 478-627: the stages that make the css, whose result is any of the
\* bodies; then css = `${css.trim()}\n${antdDefault}`.
AppendDefault(body) ==
    /\ assemblePc = "body"
    /\ css' = Trim(body) \o <<"\n">> \o AntdDefault
    /\ assemblePc' = "reverse"
    /\ UNCHANGED <<themeVariables, themeVars, mappings, forEachIndex, cssCache>>
    /\ UNCHANGED notAssemble

\* Line 629: themeVars.reverse()
ReverseThemeVars ==
    /\ assemblePc = "reverse"
    /\ themeVars' = Reverse(themeVars)
    /\ forEachIndex' = 1
    /\ assemblePc' = "forEach"
    /\ UNCHANGED <<themeVariables, mappings, css, cssCache>>
    /\ UNCHANGED notAssemble

\* Lines 629-632: the forEach callback on one variable.
PrependDefinition ==
    /\ assemblePc = "forEach"
    /\ forEachIndex <= Len(themeVars)
    /\ LET varName == themeVars[forEachIndex]
       IN css' = WithDefinition(varName, mappings[varName],
                                ReplaceRx(css, 1, Rx("definition", varName), <<>>))
    /\ forEachIndex' = forEachIndex + 1
    /\ UNCHANGED <<themeVariables, themeVars, mappings, assemblePc, cssCache>>
    /\ UNCHANGED notAssemble

\* Lines 634-637: css = minifyCss(css); cssCache = css; return css
MinifyAndStore ==
    /\ assemblePc = "forEach"
    /\ forEachIndex > Len(themeVars)
    /\ css' = minifyCss(css)
    /\ cssCache' = css'
    /\ assemblePc' = "done"
    /\ UNCHANGED <<themeVariables, themeVars, mappings, forEachIndex>>
    /\ UNCHANGED notAssemble

NextAssemble ==
    \/ FilterThemeVars
    \/ \E body \in AssembleBodies : AppendDefault(body)
    \/ ReverseThemeVars
    \/ PrependDefinition
    \/ MinifyAndStore

\* The variables of the caller's list that are retained, each once, in the
\* order of their first places in that list.
RECURSIVE RetainedOnce(_, _)
RetainedOnce(list, seen) ==
    IF list = <<>> THEN <<>>
    ELSE IF \/ Head(list) \in seen
            \/ Head(list) \notin DOMAIN AssembleMappings
            \/ \E i \in 1..(Len(Head(list)) - 1) : Head(list)[i] = "-" /\ Head(list)[i + 1] \in Digits
         THEN RetainedOnce(Tail(list), seen)
         ELSE <<Head(list)>> \o RetainedOnce(Tail(list), seen \cup {Head(list)})

\* The definitions of the variables vs, one a line, in the order of vs.
RECURSIVE LeadingBlock(_)
LeadingBlock(vs) ==
    IF vs = <<>> THEN <<>>
    ELSE Head(vs) \o <<":", " ">> \o AssembleMappings[Head(vs)] \o <<";", "\n">> \o LeadingBlock(Tail(vs))

\* The text begins with the block and the rule body (or its comment) is next.
BlockThenBody(text, block) ==
    /\ StartsWith(text, block)
    /\ Len(text) > Len(block)
    /\ text[Len(block) + 1] = "."

\* C9 as claimed: the stylesheet begins with one definition for each
\* retained variable, before the rule body, in the reverse of the order of
\* the caller's list.
DefinitionsInReverseOrder ==
    assemblePc = "done" =>
        LET retained == RetainedOnce(themeVariables, {})
            n == Len(retained)
        IN BlockThenBody(css, LeadingBlock([i \in 1..n |-> retained[n + 1 - i]]))

\* C9 as amended: the stylesheet begins with one definition for each
\* retained variable, before the rule body, in the order of the caller's
\* list, and has no other definition of a retained variable.
DefinitionsInListOrder ==
    assemblePc = "done" =>
        /\ BlockThenBody(css, LeadingBlock(RetainedOnce(themeVariables, {})))
        /\ \A i \in 1..Len(themeVars) : Occurrences(css, themeVars[i] \o <<":">>) = 1

\* C9 witness: the stylesheet is made for a list with two different
\* retained variables, and holds the definition of each.
TwoDefinitionsPrepended ==
    /\ assemblePc = "done"
    /\ Len(themeVars) = 2
    /\ themeVars[1] # themeVars[2]
    /\ Contains(css, DefinitionLine(themeVars[1], mappings[themeVars[1]]))
    /\ Contains(css, DefinitionLine(themeVars[2], mappings[themeVars[2]]))

(***************************************************************************)
(* generateTheme: the shade marker rules (lines 497-509), with getShade.   *)
(***************************************************************************)
MaxShadeVars == 2

\* Line 499: [1, 2, 3, 4, 5, 7, 8, 9, 10]
ShadeKeys == <<1, 2, 3, 4, 5, 7, 8, 9, 10>>

\* `${key}`: the decimal text of a number.
RECURSIVE NumberText(_)
NumberText(n) ==
    IF n < 10 THEN <<(<<"0","1","2","3","4","5","6","7","8","9">>)[n + 1]>>
    ELSE NumberText(n \div 10) \o NumberText(n % 10)

\* Lines 500-503: const name
ShadeName(varName, key) ==
    IF varName = TxtPrimaryColor
    THEN <<"@">> \o TxtPrimaryDash \o NumberText(key)
    ELSE varName \o <<"-">> \o NumberText(key)

\* Lines 494 and 504-506: `.${name.replace("@", "")} { color: ${value}; }\n `
MarkerRule(name, value) ==
    <<".">> \o DropFirstAt(name) \o <<" ","{"," ","c","o","l","o","r",":"," ">>
    \o value \o <<";"," ","}","\n"," ">>

\* Line 494 for every variable: the css the shade loop starts with.
RECURSIVE MarkerRules(_, _)
MarkerRules(names, colors) ==
    IF names = <<>> THEN <<>>
    ELSE MarkerRules(Tail(names), colors) \o MarkerRule(Head(names), colors[Head(names)])

\* The markers of lines 478-495 for the variables of the model.
ShadeMarkers ==
    [v \in ThemeVarNames |->
        IF v = TxtPrimaryColor THEN PRIMARY_RANDOM_COLOR
        ELSE IF v = TxtLinkColor THEN TxtMarkerA ELSE TxtMarkerB]

InitShade ==
    /\ themeVars \in {vs \in SeqsOf(ThemeVarNames, 0, MaxShadeVars) :
                         \A i, j \in 1..Len(vs) : i # j => vs[i] # vs[j]}
    /\ randomColors = [v \in {themeVars[i] : i \in 1..Len(themeVars)} |-> ShadeMarkers[v]]
    /\ css = MarkerRules(themeVars, randomColors)
    /\ varsContent = <<>>
    /\ varIndex = 1
    /\ keyPos = 1
    /\ shadePc = IF themeVars = <<>> THEN "done" ELSE "keys"

\* Lines 499-507: the callback of the inner forEach on one key.
EmitShadeRule ==
    /\ shadePc = "keys"
    /\ LET name == ShadeName(themeVars[varIndex], ShadeKeys[keyPos])
       IN css' = MarkerRule(name, getShade(name)) \o css
    /\ keyPos' = keyPos + 1
    /\ shadePc' = IF keyPos = Len(ShadeKeys) THEN "vars" ELSE "keys"
    /\ UNCHANGED <<themeVars, randomColors, varsContent, varIndex>>
    /\ UNCHANGED notShade

\* Line 508, and the outer forEach moves on.
AppendVarsContent ==
    /\ shadePc = "vars"
    /\ varsContent' = varsContent \o themeVars[varIndex] \o <<":", " ">>
                      \o randomColors[themeVars[varIndex]] \o <<";", "\n">>
    /\ varIndex' = varIndex + 1
    /\ keyPos' = 1
    /\ shadePc' = IF varIndex = Len(themeVars) THEN "done" ELSE "keys"
    /\ UNCHANGED <<themeVars, randomColors, css>>
    /\ UNCHANGED notShade

NextShade == EmitShadeRule \/ AppendVarsContent

\* The ramp expression that requests palette index n of the variable base.
RampExpression(base, n) ==
    <<"c","o","l","o","r","(","~",Backtick,"c","o","l","o","r","P","a","l","e","t","t","e","(","\"","@","{">>
    \o DropFirstAt(base)
    \o <<"}","\"",","," ">> \o NumberText(n) \o <<")",Backtick,")">>

\* The shade tokens whose marker rule the loop has emitted: <<i, k>> is key
\* k of variable i.
EmittedShades ==
    {ik \in (1..Len(themeVars)) \X (1..Len(ShadeKeys)) :
        \/ ik[1] < varIndex
        \/ ik[1] = varIndex /\ (ik[2] < keyPos \/ shadePc = "vars")}

\* C11: for every retained theme variable and every shade index N of
\* 1,2,3,4,5,7,8,9,10, exactly one shade marker rule is emitted for the
\* token with suffix N, its ramp expression requests palette index N of the
\* base variable, as does the ramp expression getShade writes for the token
\* in reverse substitution, and no two emitted tokens share a ramp expression.
ShadeRampRequestsOwnIndex ==
    /\ \A ik \in EmittedShades :
          LET base == themeVars[ik[1]]
              n == ShadeKeys[ik[2]]
              name == ShadeName(base, n)
          IN /\ Occurrences(css, <<".">> \o DropFirstAt(name) \o <<" ", "{">>) = 1
             /\ Occurrences(css, MarkerRule(name, RampExpression(base, n))) = 1
             /\ getShade(name) = RampExpression(base, n)
    /\ \A ik, jl \in EmittedShades :
          ik # jl =>
              getShade(ShadeName(themeVars[ik[1]], ShadeKeys[ik[2]]))
                  # getShade(ShadeName(themeVars[jl[1]], ShadeKeys[jl[2]]))

(***************************************************************************)
(* Specifications: each part of the program runs with the others at rest.  *)
(***************************************************************************)
IdlePrune == sheet = <<>> /\ passes = 0

IdleMarker ==
    /\ themeVars = <<>> /\ varIndex = 1 /\ color = <<>> /\ markerPc = "done"
    /\ randomColors = EmptyMap /\ randomColorsVars = EmptyMap

IdleVars ==
    /\ declarations = <<>> /\ varFileText = <<>> /\ lineIndex = 1 /\ prev = EmptyMap
    /\ lessVars = EmptyMap /\ mappings = EmptyMap /\ varPc = "done"

IdleCustom ==
    /\ files = <<>> /\ csss = <<>> /\ markerOutcome = "pending" /\ targetOutcome = "pending"
    /\ customParts = <<>> /\ prunedCss = <<>> /\ customPc = "done"

IdleSubst ==
    /\ resultsCss = <<>> /\ css = <<>> /\ themeCompiledVars = EmptyMap /\ compiledKeys = <<>>
    /\ fadeMap = EmptyMap /\ keyIndex = 1 /\ substPc = "done"

IdleAssemble == themeVariables = <<>> /\ forEachIndex = 1 /\ assemblePc = "done"

IdleShade == varsContent = <<>> /\ keyPos = 1 /\ shadePc = "done"

\* The variables of the other stages that the shade marker loop leaves alone.
RestForShade ==
    /\ color = <<>> /\ markerPc = "done" /\ randomColorsVars = EmptyMap
    /\ resultsCss = <<>> /\ themeCompiledVars = EmptyMap /\ compiledKeys = <<>>
    /\ fadeMap = EmptyMap /\ keyIndex = 1 /\ substPc = "done"

IdleResolve == lineMatches = <<>> /\ lookupName = <<>> /\ hops = 0 /\ resolvePc = "done"

\* The variables of the Variable Collector that the colours-map pass leaves alone.
RestForResolve == lessVars = EmptyMap /\ mappings = EmptyMap /\ varPc = "done"

\* The variables of the other stages that the last stage leaves alone.
RestForAssemble ==
    /\ varIndex = 1 /\ color = <<>> /\ markerPc = "done"
    /\ randomColors = EmptyMap /\ randomColorsVars = EmptyMap
    /\ declarations = <<>> /\ varFileText = <<>> /\ lineIndex = 1 /\ prev = EmptyMap
    /\ lessVars = EmptyMap /\ varPc = "done"
    /\ resultsCss = <<>> /\ themeCompiledVars = EmptyMap /\ compiledKeys = <<>>
    /\ fadeMap = EmptyMap /\ keyIndex = 1 /\ substPc = "done"

Init == InitCache /\ IdlePrune /\ IdleMarker /\ IdleVars /\ IdleCustom /\ IdleSubst /\ IdleAssemble /\ IdleShade /\ IdleResolve
Spec == Init /\ [][NextCache]_vars

PruneInit == InitCache /\ InitPrune /\ IdleMarker /\ IdleVars /\ IdleCustom /\ IdleSubst /\ IdleAssemble /\ IdleShade /\ IdleResolve
SpecPrune == PruneInit /\ [][NextPrune]_vars

MarkerInit == InitCache /\ IdlePrune /\ InitMarker /\ IdleVars /\ IdleCustom /\ IdleSubst /\ IdleAssemble /\ IdleShade /\ IdleResolve
SpecMarker == MarkerInit /\ [][NextMarker]_vars

VarsInit == InitCache /\ IdlePrune /\ IdleMarker /\ InitVars /\ IdleCustom /\ IdleSubst /\ IdleAssemble /\ IdleShade /\ IdleResolve
SpecVars == VarsInit /\ [][NextVars]_vars

CustomInit == InitCache /\ IdlePrune /\ IdleMarker /\ IdleVars /\ InitCustom /\ IdleSubst /\ IdleAssemble /\ IdleShade /\ IdleResolve
SpecCustom == CustomInit /\ [][NextCustom]_vars

SubstInit == InitCache /\ IdlePrune /\ IdleMarker /\ IdleVars /\ IdleCustom /\ InitSubst /\ IdleAssemble /\ IdleShade /\ IdleResolve
SpecSubst == SubstInit /\ [][NextSubst]_vars

AssembleInit == InitCache /\ IdlePrune /\ IdleCustom /\ RestForAssemble /\ InitAssemble /\ IdleShade /\ IdleResolve
SpecAssemble == AssembleInit /\ [][NextAssemble]_vars

ShadeInit == InitCache /\ IdlePrune /\ IdleVars /\ IdleCustom /\ IdleAssemble /\ RestForShade /\ InitShade /\ IdleResolve
SpecShade == ShadeInit /\ [][NextShade]_vars

ResolveInit ==
    InitCache /\ IdlePrune /\ IdleMarker /\ IdleCustom /\ IdleSubst /\ IdleAssemble /\ IdleShade
    /\ RestForResolve /\ InitResolve
SpecResolve == ResolveInit /\ [][NextResolve]_vars
\* generateColorMap is synchronous code: a step that can be taken is taken.
SpecResolveFair == SpecResolve /\ WF_vars(NextResolve)

====
